---- MODULE Spec2Model ----
(***************************************************************************)
(* A model of scripts/count_kmers.py: the k-mer universe generator         *)
(* (list_kmers), the rolling counter (count_kmers) and the driver (main).  *)
(*                                                                         *)
(* Strings are modelled as sequences of one-character strings.  Python     *)
(* lists (res, the list list_kmers returns) are functions on 0..n-1, so    *)
(* indices are the source's 0-based indices.                               *)
(*                                                                         *)
(* Spec     : count_kmers called directly (as Tests.test_count_kmers does),*)
(*            one action per branch of the per-character loop.             *)
(* SpecMain : main reading a stream of lines, one action per line.         *)
(***************************************************************************)
EXTENDS Integers, Sequences, FiniteSets, TLC

VARIABLES
    \* ---- count_kmers (one direct invocation)
    seq,      \* argument seq
    k,        \* argument k
    n,        \* argument n
    res,      \* local res, a function on 0..n-1
    fwd,      \* local fwd
    rev,      \* local rev
    m,        \* local m
    pos,      \* number of characters of seq the for loop has consumed
    pc,       \* "entry", "loop", "done", "raised" ("idle" under SpecMain)
    \* ---- main
    kvalue,   \* args.kvalue
    minlenArg,\* args.minlen: <<>> for None, <<v>> for the integer v
    input,    \* the lines read from args.input so far
    name,     \* local name
    mseq,     \* local seq of main
    freqs,    \* local freqs: <<>> for None, <<vector>> otherwise
    out,      \* the rows printed to args.output so far
    calls,    \* the seq arguments count_kmers has been invoked with (history)
    mpc       \* "start", "loop", "done", "raised" ("idle" under Spec)

cvars == <<seq, k, n, res, fwd, rev, m, pos, pc>>
mvars == <<kvalue, minlenArg, input, name, mseq, freqs, out, calls, mpc>>
vars == <<seq, k, n, res, fwd, rev, m, pos, pc,
          kvalue, minlenArg, input, name, mseq, freqs, out, calls, mpc>>

-----------------------------------------------------------------------------
(* Bounds of the model                                                     *)

\* longest sequence count_kmers is invoked on directly (besides TestInputs)
MaxLen == 4
\* largest k
MaxK == 3
\* most lines main reads
MaxLines == 4
\* largest -l/--minlen
MaxMinLen == 3

-----------------------------------------------------------------------------
(* Python primitives                                                       *)

\* a << s, for s >= 0
shl(a, s) == a * (2 ^ s)

\* a >> s, for s >= 0 (floor division)
shr(a, s) == a \div (2 ^ s)

\* a & b, for a, b >= 0
RECURSIVE BitAnd(_, _)
BitAnd(a, b) ==
    IF a = 0 \/ b = 0 THEN 0
    ELSE (a % 2) * (b % 2) + 2 * BitAnd(a \div 2, b \div 2)

\* main: chars = 'ACGT'
chars == <<"A", "C", "G", "T">>

\* find with a miss reported as len(chars) in place of -1
findMiss4(c) ==
    IF \E j \in 1..Len(chars) : chars[j] = c
    THEN (CHOOSE j \in 1..Len(chars) : chars[j] = c) - 1
    ELSE Len(chars)

\* chars.find(c) for a one-character string c
find(c) ==
    IF \E j \in 1..Len(chars) : chars[j] = c
    THEN (CHOOSE j \in 1..Len(chars) : chars[j] = c) - 1
    ELSE -1

\* tobit looking the character up in 'ACTG'
tobitSwapped(c) ==
    CASE c = "A" -> 0 [] c = "C" -> 1 [] c = "T" -> 2 [] c = "G" -> 3 [] OTHER -> -1

\* main: tobit = chars.find
tobit(c) == find(c)

\* map(tobit, seq)
bits(s) == [j \in 1..Len(s) |-> tobit(s[j])]

\* [v] * cnt, as a function on 0..cnt-1
ListOf(v, cnt) == [j \in 0..(cnt - 1) |-> v]

\* len() of such a list
ListLen(l) == Cardinality(DOMAIN l)

\* lst[idx] exists: Python accepts -len <= idx < len and raises IndexError otherwise
IndexOk(l, idx) == idx >= -ListLen(l) /\ idx < ListLen(l)

\* the cell lst[idx] names (a negative index counts from the end)
Cell(l, idx) == IF idx < 0 THEN idx + ListLen(l) ELSE idx

\* res[idx] += 1
Incr(l, idx) == [l EXCEPT ![Cell(l, idx)] = @ + 1]

-----------------------------------------------------------------------------
(* list_kmers                                                              *)

\* the inner loop appending the base in place of prepending it
RECURSIVE KmerLoopAppend(_, _, _, _)
KmerLoopAppend(cs, idx, kmer, j) ==
    IF j <= 0 THEN kmer
    ELSE KmerLoopAppend(cs, shr(idx, 2), kmer \o <<cs[BitAnd(idx, 4 - 1) + 1]>>, j - 1)

\* the inner loop: j more rounds of kmer = chars[idx & 4 - 1] + kmer; idx >>= 2
RECURSIVE KmerLoop(_, _, _, _)
KmerLoop(cs, idx, kmer, j) ==
    IF j <= 0 THEN kmer
    ELSE KmerLoop(cs, shr(idx, 2), <<cs[BitAnd(idx, 4 - 1) + 1]>> \o kmer, j - 1)

\* list_kmers(chars, k, n), for an integer n
list_kmers(cs, kk, nn) == [i \in 0..(nn - 1) |-> KmerLoop(cs, i, <<>>, kk)]

-----------------------------------------------------------------------------
(* count_kmers                                                             *)

\* q = (k - 1) * 2
q_of(kk) == (kk - 1) * 2

\* x = (1 << q) - 1
x_of(kk) == shl(1, q_of(kk)) - 1

\* the locals of count_kmers after lines 144-147
Locals(nn) == [res |-> ListOf(0, nn), fwd |-> 0, rev |-> 0, m |-> 0, raised |-> FALSE]

\* one increment only when fwd and rev name the same cell
AddCountOnce(st) ==
    IF ~IndexOk(st.res, st.fwd) THEN [st EXCEPT !.raised = TRUE]
    ELSE LET r1 == Incr(st.res, st.fwd) IN
         IF ~IndexOk(r1, st.rev) THEN [st EXCEPT !.res = r1, !.raised = TRUE]
         ELSE IF st.rev = st.fwd THEN [st EXCEPT !.res = r1]
         ELSE [st EXCEPT !.res = Incr(r1, st.rev)]

\* res[fwd] += 1; res[rev] += 1 (an IndexError leaves the first increment done)
AddCount(st) ==
    IF ~IndexOk(st.res, st.fwd) THEN [st EXCEPT !.raised = TRUE]
    ELSE LET r1 == Incr(st.res, st.fwd) IN
         IF ~IndexOk(r1, st.rev) THEN [st EXCEPT !.res = r1, !.raised = TRUE]
         ELSE [st EXCEPT !.res = Incr(r1, st.rev)]

\* an invalid character clearing the registers but not the run counter
ResetKeepRun(st) == [st EXCEPT !.fwd = 0, !.rev = 0]

\* invalid character: fwd, rev, m = 0, 0, 0
Reset(st) == [st EXCEPT !.fwd = 0, !.rev = 0, !.m = 0]

\* sliding with the new base, not its complement, entering rev
SlideStepNoComp(st, bit, kk) ==
    AddCount([st EXCEPT
        !.fwd = shl(BitAnd(st.fwd, x_of(kk)), 2) + bit,
        !.rev = shr(st.rev, 2) + shl(bit, q_of(kk))])

\* sliding with the complement entering rev at the low end, as in fwd
SlideStepRevLow(st, bit, kk) ==
    AddCount([st EXCEPT
        !.fwd = shl(BitAnd(st.fwd, x_of(kk)), 2) + bit,
        !.rev = shl(BitAnd(st.rev, x_of(kk)), 2) + (3 - bit)])

\* sliding that also advances the run counter
SlideStepBumpRun(st, bit, kk) ==
    AddCount([st EXCEPT
        !.fwd = shl(BitAnd(st.fwd, x_of(kk)), 2) + bit,
        !.rev = shr(st.rev, 2) + shl(3 - bit, q_of(kk)),
        !.m = st.m + 1])

\* current k-mer is complete, move to next k-mer
SlideStep(st, bit, kk) ==
    AddCount([st EXCEPT
        !.fwd = shl(BitAnd(st.fwd, x_of(kk)), 2) + bit,
        !.rev = shr(st.rev, 2) + shl(3 - bit, q_of(kk))])

\* filling without counting the window that becomes complete
FillStepNoCount(st, bit, kk) ==
    [st EXCEPT
        !.fwd = bit + shl(st.fwd, 2),
        !.rev = st.rev + shl(3 - bit, 2 * st.m),
        !.m = st.m + 1]

\* filling with the complement shifted by m, not 2 * m, bits
FillStepShiftRun(st, bit, kk) ==
    LET s1 == [st EXCEPT
                  !.fwd = bit + shl(st.fwd, 2),
                  !.rev = st.rev + shl(3 - bit, st.m),
                  !.m = st.m + 1]
    IN  IF s1.m = kk THEN AddCount(s1) ELSE s1

\* current k-mer is incomplete, add one character
FillStep(st, bit, kk) ==
    LET s1 == [st EXCEPT
                  !.fwd = bit + shl(st.fwd, 2),
                  !.rev = st.rev + shl(3 - bit, 2 * st.m),
                  !.m = st.m + 1]
    IN  IF s1.m = kk THEN AddCount(s1) ELSE s1

\* one iteration of the for loop
Step(st, bit, kk) ==
    IF bit = -1 THEN Reset(st)
    ELSE IF st.m = kk THEN SlideStep(st, bit, kk)
    ELSE FillStep(st, bit, kk)

\* the for loop over map(tobit, seq), from its j-th item on
RECURSIVE Loop(_, _, _, _)
Loop(st, bs, j, kk) ==
    IF st.raised \/ j > Len(bs) THEN st
    ELSE Loop(Step(st, bs[j], kk), bs, j + 1, kk)

\* count_kmers(seq, k, n, tobit) as a function of its arguments:
\* 1 << q raises ValueError when q < 0
count_kmers(s, kk, nn) ==
    IF q_of(kk) < 0 THEN [Locals(nn) EXCEPT !.raised = TRUE]
    ELSE Loop(Locals(nn), bits(s), 1, kk)

\* the locals of the running invocation
Cur == [res |-> res, fwd |-> fwd, rev |-> rev, m |-> m, raised |-> FALSE]

\* the item the for loop takes next
NextBit == tobit(seq[pos + 1])

Become(st) ==
    /\ res' = st.res
    /\ fwd' = st.fwd
    /\ rev' = st.rev
    /\ m' = st.m
    /\ pc' = IF st.raised THEN "raised" ELSE "loop"

\* lines 143-151
Setup ==
    /\ pc = "entry"
    /\ res' = ListOf(0, n)
    /\ fwd' = 0 /\ rev' = 0 /\ m' = 0
    /\ pc' = IF q_of(k) < 0 THEN "raised" ELSE "loop"
    /\ UNCHANGED <<seq, k, n, pos>>
    /\ UNCHANGED mvars

\* lines 157-158
Invalid ==
    /\ pc = "loop" /\ pos < Len(seq)
    /\ NextBit = -1
    /\ Become(Reset(Cur))
    /\ pos' = pos + 1
    /\ UNCHANGED <<seq, k, n>>
    /\ UNCHANGED mvars

\* lines 161-167
Slide ==
    /\ pc = "loop" /\ pos < Len(seq)
    /\ NextBit # -1 /\ m = k
    /\ Become(SlideStep(Cur, NextBit, k))
    /\ pos' = pos + 1
    /\ UNCHANGED <<seq, k, n>>
    /\ UNCHANGED mvars

\* lines 170-178
Fill ==
    /\ pc = "loop" /\ pos < Len(seq)
    /\ NextBit # -1 /\ m # k
    /\ Become(FillStep(Cur, NextBit, k))
    /\ pos' = pos + 1
    /\ UNCHANGED <<seq, k, n>>
    /\ UNCHANGED mvars

\* line 179
Return ==
    /\ pc = "loop" /\ pos = Len(seq)
    /\ pc' = "done"
    /\ UNCHANGED <<seq, k, n, res, fwd, rev, m, pos>>
    /\ UNCHANGED mvars

-----------------------------------------------------------------------------
(* Inputs of a direct invocation                                           *)

Alphabet == {"A", "C", "G", "T", "N"}

RECURSIVE SeqsUpTo(_, _)
SeqsUpTo(S, len) ==
    IF len = 0 THEN {<<>>}
    ELSE LET shorter == SeqsUpTo(S, len - 1) IN
         shorter \cup {Append(s, c) : s \in {t \in shorter : Len(t) = len - 1}, c \in S}

\* the calls of Tests.test_count_kmers, and the sequence with one N
TestACGT == <<"A", "C", "G", "T">>
TestGCACTA == <<"G", "C", "A", "C", "T", "A">>
TestLong ==
    <<"C", "C", "A", "G", "C", "T", "G", "C", "G", "T", "A", "A", "C", "C",
      "G", "A", "G", "A", "A", "A", "C", "T", "A", "C", "G", "T", "C", "T">>
TestN == <<"A", "C", "G", "T", "N", "A", "C", "G", "T">>
TestLower == <<"A", "C", "G", "a", " ", "C", "G", "T">>

TestInputs ==
    {<<TestACGT, 2>>, <<TestGCACTA, 2>>, <<TestLong, 3>>, <<TestLong, 1>>,
     <<TestN, 1>>, <<TestN, 2>>, <<TestN, 3>>, <<TestLower, 2>>}

Inputs == (SeqsUpTo(Alphabet, MaxLen) \X (0..MaxK)) \cup TestInputs

MainIdle ==
    /\ kvalue = 0 /\ minlenArg = <<>> /\ input = <<>> /\ name = <<>>
    /\ mseq = <<>> /\ freqs = <<>> /\ out = <<>> /\ calls = <<>>
    /\ mpc = "idle"

Init ==
    /\ \E in \in Inputs :
          /\ seq = in[1]
          /\ k = in[2]
          /\ n = 4 ^ in[2]
    /\ res = <<>> /\ fwd = 0 /\ rev = 0 /\ m = 0 /\ pos = 0
    /\ pc = "entry"
    /\ MainIdle

Next == Setup \/ Invalid \/ Slide \/ Fill \/ Return

Spec == Init /\ [][Next]_vars

-----------------------------------------------------------------------------
(* main                                                                    *)

Whitespace == {" ", "\n", "\t"}

\* str.rstrip()
RECURSIVE rstrip(_)
rstrip(s) ==
    IF Len(s) > 0 /\ s[Len(s)] \in Whitespace THEN rstrip(SubSeq(s, 1, Len(s) - 1))
    ELSE s

\* str.upper(), character by character
UpperChar(c) ==
    CASE c = "a" -> "A"
      [] c = "c" -> "C"
      [] c = "g" -> "G"
      [] c = "t" -> "T"
      [] c = "n" -> "N"
      [] c = "s" -> "S"
      [] c = "x" -> "X"
      [] c = "y" -> "Y"
      [] OTHER -> c
upper(s) == [j \in 1..Len(s) |-> UpperChar(s[j])]

\* str.split(): the maximal runs of non-whitespace characters
RECURSIVE split(_)
split(s) ==
    IF Len(s) = 0 THEN <<>>
    ELSE IF s[1] \in Whitespace THEN split(Tail(s))
    ELSE LET stop == IF \E j \in 1..Len(s) : s[j] \in Whitespace
                     THEN (CHOOSE j \in 1..Len(s) :
                              /\ s[j] \in Whitespace
                              /\ \A i \in 1..(j - 1) : s[i] \notin Whitespace)
                     ELSE Len(s) + 1
         IN  <<SubSeq(s, 1, stop - 1)>> \o split(SubSeq(s, stop, Len(s)))

\* minlen = args.minlen or 0
minlen == IF minlenArg = <<>> THEN 0 ELSE minlenArg[1]

\* n = len(chars) ** k, an integer when k >= 0 (a float otherwise)
n_of(kk) == Len(chars) ^ kk

\* a printed row: print(first, '\t'.join(cells), sep='\t', file=out)
Row(first, cells) == [name |-> first, cells |-> cells]

\* the flush without the minimum length test
FlushNoMinLen(st, nm, sq, kk, ml) ==
    IF Len(sq) > 0
    THEN LET r == count_kmers(sq, kk, n_of(kk)) IN
         IF r.raised
         THEN [st EXCEPT !.calls = Append(st.calls, sq), !.raised = TRUE]
         ELSE [st EXCEPT !.calls = Append(st.calls, sq),
                         !.freqs = <<r.res>>,
                         !.out = Append(st.out, Row(nm, r.res))]
    ELSE st

\* lines 82-84 and 88-90: the state after "if seq and len(seq) >= minlen: ..."
\* from the state st = [freqs, out, calls, raised]
Flush(st, nm, sq, kk, ml) ==
    IF Len(sq) > 0 /\ Len(sq) >= ml
    THEN LET r == count_kmers(sq, kk, n_of(kk)) IN
         IF r.raised
         THEN [st EXCEPT !.calls = Append(st.calls, sq), !.raised = TRUE]
         ELSE [st EXCEPT !.calls = Append(st.calls, sq),
                         !.freqs = <<r.res>>,
                         !.out = Append(st.out, Row(nm, r.res))]
    ELSE st

MainCur == [freqs |-> freqs, out |-> out, calls |-> calls, raised |-> FALSE]

\* lines 53-79: k < 0 makes n a float and [''] * n raises TypeError
PrintHeader ==
    /\ mpc = "start"
    /\ IF kvalue < 0
       THEN /\ mpc' = "raised"
            /\ UNCHANGED out
       ELSE /\ mpc' = "loop"
            /\ out' = Append(out, Row(<<>>, list_kmers(chars, kvalue, n_of(kvalue))))
    /\ name' = <<>> /\ mseq' = <<>> /\ freqs' = <<>>
    /\ UNCHANGED <<kvalue, minlenArg, input, calls>>
    /\ UNCHANGED cvars

\* lines 81-85: a line starting with '>'
\* line[1:].rstrip().split()[0] raises IndexError when there is no token
HeaderLine(line) ==
    /\ mpc = "loop" /\ Len(input) < MaxLines
    /\ line[1] = ">"
    /\ input' = Append(input, line)
    /\ LET st == Flush(MainCur, name, mseq, kvalue, minlen)
           toks == split(rstrip(Tail(line)))
       IN  /\ freqs' = st.freqs /\ out' = st.out /\ calls' = st.calls
           /\ IF st.raised
              THEN mpc' = "raised" /\ UNCHANGED <<name, mseq>>
              ELSE IF Len(toks) = 0
              THEN mpc' = "raised" /\ UNCHANGED <<name, mseq>>
              ELSE mpc' = "loop" /\ name' = toks[1] /\ mseq' = <<>>
    /\ UNCHANGED <<kvalue, minlenArg>>
    /\ UNCHANGED cvars

\* lines 86-87: any other line
ResidueLine(line) ==
    /\ mpc = "loop" /\ Len(input) < MaxLines
    /\ line[1] # ">"
    /\ input' = Append(input, line)
    /\ mseq' = mseq \o upper(rstrip(line))
    /\ UNCHANGED <<kvalue, minlenArg, name, freqs, out, calls, mpc>>
    /\ UNCHANGED cvars

\* lines 88-90: the input is exhausted
EndOfInput ==
    /\ mpc = "loop"
    /\ LET st == Flush(MainCur, name, mseq, kvalue, minlen)
       IN  /\ freqs' = st.freqs /\ out' = st.out /\ calls' = st.calls
           /\ mpc' = IF st.raised THEN "raised" ELSE "done"
    /\ UNCHANGED <<kvalue, minlenArg, input, name, mseq>>
    /\ UNCHANGED cvars

\* the lines args.input may yield
Lines ==
    { <<">", "s", "\n">>,
      <<">", "x", " ", "y", "\n">>,
      <<">", "\n">>,
      <<"A", "C", "G", "\n">>,
      <<"a", "N", "\n">>,
      <<"\n">> }

\* the command lines: -k and -l
Configs ==
    ({-1, 0} \X {<<>>})
    \cup ((1..MaxK) \X ({<<>>} \cup {<<v>> : v \in 0..MaxMinLen}))

CountIdle ==
    /\ seq = <<>> /\ k = 0 /\ n = 0 /\ res = <<>>
    /\ fwd = 0 /\ rev = 0 /\ m = 0 /\ pos = 0
    /\ pc = "idle"

InitMain ==
    /\ \E cf \in Configs :
          /\ kvalue = cf[1]
          /\ minlenArg = cf[2]
    /\ input = <<>> /\ name = <<>> /\ mseq = <<>> /\ freqs = <<>>
    /\ out = <<>> /\ calls = <<>>
    /\ mpc = "start"
    /\ CountIdle

NextMain ==
    \/ PrintHeader
    \/ \E line \in Lines : HeaderLine(line)
    \/ \E line \in Lines : ResidueLine(line)
    \/ EndOfInput

SpecMain == InitMain /\ [][NextMain]_vars

-----------------------------------------------------------------------------
(* Reference notions the properties are stated with                        *)

Bases == {"A", "C", "G", "T"}

AllValid(w) == \A j \in 1..Len(w) : w[j] \in Bases

\* A<->T, C<->G; any other character stays what it is
Comp(c) ==
    CASE c = "A" -> "T"
      [] c = "T" -> "A"
      [] c = "C" -> "G"
      [] c = "G" -> "C"
      [] OTHER -> c

RevComp(w) == [j \in 1..Len(w) |-> Comp(w[Len(w) + 1 - j])]

\* the universe of k-mers, per k
Universe == [kk \in 1..MaxK |-> list_kmers(chars, kk, 4 ^ kk)]

\* the windows of s of length kk, by start position
Starts(s, kk) == 1..(Len(s) - kk + 1)
Window(s, p, kk) == SubSeq(s, p, p + kk - 1)

\* brute force: per k-mer, the clean windows spelling it plus the clean
\* windows whose reverse complement spells it
BruteForce(s, kk) ==
    [i \in 0..(4 ^ kk - 1) |->
        Cardinality({p \in Starts(s, kk) :
            AllValid(Window(s, p, kk)) /\ Window(s, p, kk) = Universe[kk][i]})
      + Cardinality({p \in Starts(s, kk) :
            AllValid(Window(s, p, kk)) /\ RevComp(Window(s, p, kk)) = Universe[kk][i]})]

\* the number of clean windows of s
CleanWindows(s, kk) == Cardinality({p \in Starts(s, kk) : AllValid(Window(s, p, kk))})

\* the code of a clean word: first base in the most significant 2 bits
RECURSIVE CodeOf(_)
CodeOf(w) ==
    IF Len(w) = 0 THEN 0
    ELSE 4 * CodeOf(SubSeq(w, 1, Len(w) - 1))
         + (CHOOSE d \in 0..3 : chars[d + 1] = w[Len(w)])

\* the sum of the cells 0..j of a list
RECURSIVE SumTo(_, _)
SumTo(l, j) == IF j < 0 THEN 0 ELSE l[j] + SumTo(l, j - 1)
Total(l) == SumTo(l, ListLen(l) - 1)

Max(a, b) == IF a >= b THEN a ELSE b

\* the vectors Tests.test_count_kmers expects
TupleList(t) == [i \in 0..(Len(t) - 1) |-> t[i + 1]]
ExpACGT == TupleList(<<0, 2, 0, 0, 0, 0, 2, 0, 0, 0, 0, 2, 0, 0, 0, 0>>)
ExpGCACTA == TupleList(<<0, 1, 1, 0, 1, 0, 0, 1, 0, 2, 0, 1, 2, 0, 1, 0>>)
ExpLong == TupleList(
    <<1, 2, 0, 0, 0, 1, 3, 1, 2, 2, 0, 1, 0, 0, 0, 0,
      0, 0, 2, 0, 1, 0, 1, 0, 1, 1, 1, 3, 1, 1, 2, 0,
      1, 1, 1, 0, 1, 0, 1, 2, 0, 0, 0, 1, 2, 1, 0, 2,
      1, 2, 1, 0, 0, 0, 1, 2, 0, 1, 1, 0, 1, 1, 0, 1>>)

-----------------------------------------------------------------------------
(* C1: for k >= 1, the vector count_kmers returns equals, cell by cell,    *)
(* the brute-force count of the clean windows spelling the k-mer           *)
(* list_kmers reports at that index plus those whose reverse complement    *)
(* spells it; the three vectors of test_count_kmers are among them.        *)
C1_BruteForce ==
    (pc = "done" /\ k >= 1) =>
        /\ res = BruteForce(seq, k)
        /\ (seq = TestACGT /\ k = 2) => res = ExpACGT
        /\ (seq = TestGCACTA /\ k = 2) => res = ExpGCACTA
        /\ (seq = TestLong /\ k = 3) => res = ExpLong

C1_Witness == pc = "done" /\ seq = TestLong /\ k = 3 /\ res = ExpLong

-----------------------------------------------------------------------------
(* C2: for k >= 1 the header list_kmers produces holds exactly 4^k         *)
(* pairwise distinct strings of length k over A, C, G, T, and the string   *)
(* at index i spells the k 2-bit groups of i, most significant first,      *)
(* through 0->A, 1->C, 2->G, 3->T (for k = 2: AA, AC, AG, AT, CA, ..., TT).*)
Digit(d) == CASE d = 0 -> "A" [] d = 1 -> "C" [] d = 2 -> "G" [] d = 3 -> "T"

ExpHead2 == TupleList(
    << <<"A", "A">>, <<"A", "C">>, <<"A", "G">>, <<"A", "T">>,
       <<"C", "A">>, <<"C", "C">>, <<"C", "G">>, <<"C", "T">>,
       <<"G", "A">>, <<"G", "C">>, <<"G", "G">>, <<"G", "T">>,
       <<"T", "A">>, <<"T", "C">>, <<"T", "G">>, <<"T", "T">> >>)

C2_Universe ==
    (mpc \in {"loop", "done", "raised"} /\ kvalue >= 1) =>
        LET head == out[1].cells IN
        /\ DOMAIN head = 0..(4 ^ kvalue - 1)
        /\ Cardinality({head[i] : i \in DOMAIN head}) = 4 ^ kvalue
        /\ \A i \in DOMAIN head :
              /\ Len(head[i]) = kvalue
              /\ \A j \in 1..kvalue :
                    head[i][j] = Digit((i \div (4 ^ (kvalue - j))) % 4)
        /\ kvalue = 2 => head = ExpHead2

C2_Witness ==
    /\ mpc = "loop" /\ kvalue = 3
    /\ out[1].cells[27] = <<"C", "G", "T">>

-----------------------------------------------------------------------------
(* C3: for k >= 1 and a sequence of length L over A, C, G, T only, the     *)
(* returned vector has length 4^k, no negative entry, and entries summing  *)
(* to 2 * max(0, L - k + 1); the empty sequence yields the all-zero vector.*)
C3_SumAndShape ==
    (pc = "done" /\ k >= 1 /\ AllValid(seq)) =>
        /\ DOMAIN res = 0..(4 ^ k - 1)
        /\ \A i \in DOMAIN res : res[i] >= 0
        /\ Total(res) = 2 * Max(0, Len(seq) - k + 1)
        /\ seq = <<>> => \A i \in DOMAIN res : res[i] = 0

C3_Witness ==
    /\ pc = "done" /\ k = 2 /\ AllValid(seq) /\ Len(seq) = 4
    /\ Total(res) = 6

-----------------------------------------------------------------------------
(* C4: for k >= 1, count_kmers returns the same vector for a sequence and  *)
(* for its reverse complement (invalid characters stay invalid, mirrored). *)
C4_RevComp ==
    (pc = "done" /\ k >= 1) =>
        LET r == count_kmers(RevComp(seq), k, n) IN
        ~r.raised /\ r.res = res

C4_Witness ==
    /\ pc = "done" /\ k = 2 /\ seq = <<"A", "C", "N", "G">>
    /\ res[1] = 1 /\ res[11] = 1

-----------------------------------------------------------------------------
(* C5: for k >= 1, the vector of S1 + X + S2 with X an invalid character   *)
(* is the entry-wise sum of the vectors of S1 and of S2 (ACGTNACGT with    *)
(* k = 2 gives twice the vector of ACGT).                                  *)
C5_Split ==
    (pc = "done" /\ k >= 1) =>
        /\ \A p \in 1..Len(seq) :
              seq[p] \notin Bases =>
                  LET a == count_kmers(SubSeq(seq, 1, p - 1), k, n)
                      b == count_kmers(SubSeq(seq, p + 1, Len(seq)), k, n)
                  IN  /\ ~a.raised /\ ~b.raised
                      /\ \A i \in 0..(4 ^ k - 1) : res[i] = a.res[i] + b.res[i]
        /\ (seq = TestN /\ k = 2) => \A i \in 0..15 : res[i] = 2 * ExpACGT[i]

C5_Witness ==
    /\ pc = "done" /\ k = 2 /\ seq = TestN
    /\ res[1] = 4 /\ res[6] = 4 /\ res[11] = 4

-----------------------------------------------------------------------------
(* C6: a k < 1 is reported before any processing: main stops with an error *)
(* before it prints the header line and before count_kmers is invoked.     *)
C6_FailFast ==
    kvalue < 1 => (out = <<>> /\ calls = <<>> /\ mpc \in {"start", "raised"})

-----------------------------------------------------------------------------
(* C7: for k >= 1 and any characters, count_kmers called with              *)
(* tobit = 'ACGT'.find and n = 4^k never raises and runs to completion: a  *)
(* character outside A, C, G, T maps to -1 and only resets fwd, rev and m, *)
(* and the indices used to increment the vector lie in [0, 4^k).           *)
C7_NoRaise ==
    (pc # "idle" /\ k >= 1) =>
        /\ pc # "raised"
        /\ pc # "done" => ENABLED Next
        /\ (pc = "loop" /\ pos < Len(seq) /\ seq[pos + 1] \notin Bases) => NextBit = -1
        /\ (pos > 0 /\ seq[pos] \notin Bases) => (fwd = 0 /\ rev = 0 /\ m = 0)
        /\ (pc \in {"loop", "done"} /\ m = k) =>
              (fwd \in 0..(4 ^ k - 1) /\ rev \in 0..(4 ^ k - 1))

C7_Witness ==
    /\ pc = "done" /\ k = 2 /\ seq = TestLower
    /\ m = 2 /\ Total(res) = 8

-----------------------------------------------------------------------------
(* C8: main never invokes count_kmers and writes no row for a record whose *)
(* residues are shorter than minlen; the record is dropped and the rows of *)
(* the records before and after it are what they are without it.          *)
HeaderIdx(inp) == {i \in 1..Len(inp) : inp[i][1] = ">"}

\* the last line of the run of residue lines that starts after line h
RunEnd(inp, h) ==
    IF \E j \in HeaderIdx(inp) : j > h
    THEN (CHOOSE j \in HeaderIdx(inp) :
             j > h /\ \A i \in HeaderIdx(inp) : i > h => j <= i) - 1
    ELSE Len(inp)

RECURSIVE Residues(_, _, _)
Residues(inp, a, b) ==
    IF a > b THEN <<>> ELSE upper(rstrip(inp[a])) \o Residues(inp, a + 1, b)

\* the record opened by header line h (h = 0: the lines before any header)
RecordAt(inp, h) ==
    [name |-> IF h = 0 THEN <<>> ELSE split(rstrip(Tail(inp[h])))[1],
     seq |-> Residues(inp, h + 1, RunEnd(inp, h))]

RECURSIVE RecordsFrom(_, _)
RecordsFrom(inp, h) ==
    IF h > Len(inp) THEN <<>>
    ELSE IF h = 0 \/ h \in HeaderIdx(inp)
    THEN <<RecordAt(inp, h)>> \o RecordsFrom(inp, h + 1)
    ELSE RecordsFrom(inp, h + 1)

Records(inp) == RecordsFrom(inp, 0)

LongEnough(r) == Len(r.seq) > 0 /\ Len(r.seq) >= minlen

C8_MinLen ==
    /\ \A i \in 1..Len(calls) : Len(calls[i]) >= minlen
    /\ Len(out) <= 1 + Len(calls)
    /\ (mpc = "done" /\ kvalue >= 1) =>
          LET kept == SelectSeq(Records(input), LongEnough) IN
          /\ Len(out) = 1 + Len(kept)
          /\ \A i \in 1..Len(kept) :
                /\ calls[i] = kept[i].seq
                /\ out[i + 1] = Row(kept[i].name,
                                    count_kmers(kept[i].seq, kvalue, 4 ^ kvalue).res)

C8_Witness ==
    /\ mpc = "done" /\ kvalue = 1 /\ minlen = 3
    /\ input = << <<">", "s", "\n">>, <<"a", "N", "\n">>,
                  <<">", "x", " ", "y", "\n">>, <<"A", "C", "G", "\n">> >>
    /\ Len(out) = 2
    /\ out[2] = Row(<<"x">>, TupleList(<<1, 2, 2, 1>>))

-----------------------------------------------------------------------------
(* C9: after any prefix has been processed, when m = k, fwd is the code of *)
(* the last k characters read (all valid) and rev the code of their        *)
(* reverse complement, both in [0, 4^k); while m < k both are in [0, 4^m). *)
C9_Registers ==
    (pc \in {"loop", "done"} /\ k >= 1) =>
        /\ m = k =>
              /\ pos >= k
              /\ LET w == SubSeq(seq, pos - k + 1, pos) IN
                 /\ AllValid(w)
                 /\ fwd = CodeOf(w)
                 /\ rev = CodeOf(RevComp(w))
              /\ fwd \in 0..(4 ^ k - 1)
              /\ rev \in 0..(4 ^ k - 1)
        /\ m < k =>
              /\ fwd \in 0..(4 ^ m - 1)
              /\ rev \in 0..(4 ^ m - 1)

C9_Witness ==
    /\ pc = "loop" /\ k = 3 /\ m = 3 /\ pos = 4
    /\ seq = <<"G", "A", "C", "T">>
    /\ fwd = 7 /\ rev = 11

-----------------------------------------------------------------------------
(* C10: each complete valid window performs two increments: the total of   *)
(* the vector grows by exactly 2, by 2 in the single cell when the window  *)
(* is its own reverse complement (fwd = rev) and by 1 in each of res[fwd]  *)
(* and res[rev] otherwise; any other character leaves the vector as it is. *)
C10_TwoIncrements ==
    [][(pc = "loop" /\ pos' = pos + 1 /\ k >= 1) =>
          IF pos' >= k /\ AllValid(SubSeq(seq, pos' - k + 1, pos'))
          THEN /\ Total(res') = Total(res) + 2
               /\ \A i \in DOMAIN res :
                     res'[i] = res[i] + (IF i = fwd' THEN 1 ELSE 0)
                                      + (IF i = rev' THEN 1 ELSE 0)
               /\ SubSeq(seq, pos' - k + 1, pos') = RevComp(SubSeq(seq, pos' - k + 1, pos'))
                     => (fwd' = rev' /\ res'[fwd'] = res[fwd'] + 2)
          ELSE res' = res]_vars

C10_Witness ==
    /\ pc = "loop" /\ k = 2 /\ pos = 2
    /\ seq[1] = "C" /\ seq[2] = "G"
    /\ fwd = rev /\ res[fwd] = 2

-----------------------------------------------------------------------------
(* C11: the run counter m stays in 0..k; a valid character adds 1 to it    *)
(* while m < k and leaves it at k (counting one window) once m = k; m      *)
(* returns to 0 only on an invalid character, and after one no window is   *)
(* counted until k consecutive valid characters have been read again.      *)

\* the number of valid characters that end the prefix of s of length p
RECURSIVE ValidRun(_, _)
ValidRun(s, p) ==
    IF p = 0 \/ s[p] \notin Bases THEN 0 ELSE 1 + ValidRun(s, p - 1)

Min(a, b) == IF a <= b THEN a ELSE b

C11_RunCounter ==
    [][(pc = "loop" /\ k >= 1) =>
          /\ m \in 0..k /\ m' \in 0..k
          /\ pos' = pos + 1 =>
                /\ IF seq[pos'] \in Bases
                   THEN IF m < k
                        THEN m' = m + 1
                        ELSE m' = k /\ Total(res') = Total(res) + 2
                   ELSE m' = 0 /\ res' = res
                /\ m' < m => (m' = 0 /\ seq[pos'] \notin Bases)
                /\ m' = Min(k, ValidRun(seq, pos'))
                /\ res' # res => ValidRun(seq, pos') >= k]_vars

C11_Witness ==
    /\ pc = "loop" /\ k = 3 /\ seq = TestN
    /\ pos = 8 /\ m = 3 /\ Total(res) = 6

-----------------------------------------------------------------------------
(* C12: for every input stream main reads to its end, writes the k-mer     *)
(* header line exactly once and before every data row, and writes exactly, *)
(* in input order, one row per maximal run of residue lines (ended by the  *)
(* next header line or the end of input) whose upper-cased concatenation   *)
(* is non-empty and at least minlen long, carrying the first token of the  *)
(* header line that opened the run (none before the first header) and the  *)
(* vector count_kmers returns for that run's residues alone.               *)

\* the runs the lines read so far have closed: all of them once the input
\* is exhausted, all but the last (still open) while main is reading
ClosedRecords ==
    LET recs == Records(input) IN
    IF mpc = "done" THEN recs ELSE SubSeq(recs, 1, Len(recs) - 1)

RowsAsSpecified ==
    LET due == SelectSeq(ClosedRecords, LongEnough) IN
    /\ Len(out) = 1 + Len(due)
    /\ out[1] = Row(<<>>, Universe[kvalue])
    /\ \A i \in 1..Len(due) :
          /\ out[i + 1].name = due[i].name
          /\ out[i + 1].cells = BruteForce(due[i].seq, kvalue)

C12_Rows ==
    (mpc # "start" /\ kvalue >= 1) =>
        /\ mpc # "raised"
        /\ RowsAsSpecified

\* the rows are as specified as long as main has not raised
C12_RowsUnlessRaised ==
    (mpc \in {"loop", "done"} /\ kvalue >= 1) => RowsAsSpecified

C12_RaisedOnlyByEmptyHeader ==
    (mpc = "raised" /\ kvalue >= 1) =>
        /\ Len(input) > 0
        /\ input[Len(input)][1] = ">"
        /\ split(rstrip(Tail(input[Len(input)]))) = <<>>

-----------------------------------------------------------------------------
(* C13: on every reachable state and every valid base, the transitions of  *)
(* count_kmers, which add the register parts, give the same fwd, rev and m *)
(* as the specified transitions, which combine them with bitwise OR: the   *)
(* added parts never share a set bit.                                      *)

\* a | b, for a, b >= 0
RECURSIVE BitOr(_, _)
BitOr(a, b) ==
    IF a = 0 THEN b
    ELSE IF b = 0 THEN a
    ELSE (IF a % 2 = 1 \/ b % 2 = 1 THEN 1 ELSE 0) + 2 * BitOr(a \div 2, b \div 2)

\* the specified transition of a full window:
\* fwd = ((fwd & mask) << 2) | bit, rev = (rev >> 2) | ((3 - bit) << (2*(k-1)))
SlideOr(st, bit, kk) ==
    [fwd |-> BitOr(shl(BitAnd(st.fwd, shl(1, 2 * (kk - 1)) - 1), 2), bit),
     rev |-> BitOr(shr(st.rev, 2), shl(3 - bit, 2 * (kk - 1))),
     m |-> st.m]

\* the specified transition of a filling window:
\* fwd = (fwd << 2) | bit, rev = rev | ((3 - bit) << (2*run)), run += 1
FillOr(st, bit, kk) ==
    [fwd |-> BitOr(shl(st.fwd, 2), bit),
     rev |-> BitOr(st.rev, shl(3 - bit, 2 * st.m)),
     m |-> st.m + 1]

C13_AddIsOr ==
    (pc = "loop" /\ k >= 1) =>
        \A bit \in 0..3 :
            LET code == Step(Cur, bit, k)
                spec == IF m = k THEN SlideOr(Cur, bit, k) ELSE FillOr(Cur, bit, k)
            IN  /\ code.fwd = spec.fwd
                /\ code.rev = spec.rev
                /\ code.m = spec.m
                /\ IF m = k
                   THEN /\ BitAnd(shl(BitAnd(fwd, x_of(k)), 2), bit) = 0
                        /\ BitAnd(shr(rev, 2), shl(3 - bit, q_of(k))) = 0
                   ELSE /\ BitAnd(shl(fwd, 2), bit) = 0
                        /\ BitAnd(rev, shl(3 - bit, 2 * m)) = 0

C13_Witness ==
    /\ pc = "loop" /\ k = 2 /\ seq = <<"G", "T", "C", "A">>
    /\ pos = 3 /\ m = 2 /\ fwd = 13 /\ rev = 8

====
